---- MODULE Spec2Model ----
(***************************************************************************)
(* Model of the Tic Tac Toe game engine of src/tic_tac_toe_frontend/src/   *)
(* App.js: the App component's state (history, currentMove), the values    *)
(* each render derives from it (calculateWinner, winner, isDraw, status),  *)
(* and its input handlers (handleSquareClick, jumpTo, resetGame).          *)
(*                                                                         *)
(* One action is one input event handled to completion: the handler's      *)
(* state writes followed by the render React performs for them.  The       *)
(* handlers are closures of the last render, so the derived values they    *)
(* read (winner, currentSquares, xIsNext) are those of `view`.             *)
(***************************************************************************)
EXTENDS Integers, Sequences, FiniteSets

VARIABLES
    history,      \* useState: the list of board snapshots
    currentMove,  \* useState: index of the active snapshot
    view,         \* the values the last render derived from the state
    event,        \* the input event handled last (observation only)
    queue         \* the state writes of the running handler, not yet applied

vars == <<history, currentMove, view, event, queue>>

\* The state the component keeps between events.
state == <<history, currentMove>>

\* null, the value of an empty square (Array(9).fill(null)).
Null == "null"

\* Indices of the squares of a board; boards are JS arrays, 0-based.
Cells == 0..8

\* JS truthiness of a square value: null is falsy, 'X' and 'O' are truthy.
Truthy(v) == v # Null

\* Array(9).fill(null)
EmptyBoard == [i \in Cells |-> Null]

\* `lines` with a typo in the last diagonal.
lines_Typo == << <<0, 1, 2>>, <<3, 4, 5>>, <<6, 7, 8>>,
                 <<0, 3, 6>>, <<1, 4, 7>>, <<2, 5, 8>>,
                 <<0, 4, 8>>, <<2, 4, 8>> >>

\* The constant `lines` of calculateWinner, in source order.
lines == << <<0, 1, 2>>, <<3, 4, 5>>, <<6, 7, 8>>,
            <<0, 3, 6>>, <<1, 4, 7>>, <<2, 5, 8>>,
            <<0, 4, 8>>, <<2, 4, 6>> >>

\* The test of the loop body without its last comparison: two equal marks
\* count as a line.
LineMatches_TwoOfThree(squares, k) ==
    LET a == lines[k][1]
        b == lines[k][2]
    IN  Truthy(squares[a]) /\ squares[a] = squares[b]

\* The test of the loop body of calculateWinner for the k-th line.
LineMatches(squares, k) ==
    LET a == lines[k][1]
        b == lines[k][2]
        c == lines[k][3]
    IN  Truthy(squares[a]) /\ squares[a] = squares[b] /\ squares[a] = squares[c]

\* The null returned by calculateWinner, as a record so that it compares with
\* the win records; its fields are what result?.player || null and
\* result?.line || [] read from it.
NoResult == [player |-> Null, line |-> <<>>]

\* The loop of calculateWinner from the k-th line on: it returns at the first
\* matching line, and null when it falls through.
RECURSIVE WinnerFrom(_, _)
WinnerFrom(squares, k) ==
    IF k > Len(lines) THEN NoResult
    ELSE IF LineMatches(squares, k)
         THEN [player |-> squares[lines[k][1]], line |-> lines[k]]
         ELSE WinnerFrom(squares, k + 1)

calculateWinner(squares) == WinnerFrom(squares, 1)

\* xIsNext with the parity inverted: O moves first.
xIsNext_Inverted(m) == m % 2 = 1

\* const xIsNext = currentMove % 2 === 0
xIsNext(m) == m % 2 = 0

\* currentSquares read from the end of history instead of currentMove.
currentSquares_Latest(h, m) == h[Len(h)]

\* const currentSquares = history[currentMove]; h is 1-based here, 0-based in
\* the source.
currentSquares(h, m) == h[m + 1]

\* result?.player || null
winner(r) == r.player

\* result?.line || []
winningLine(r) == r.line

\* isDraw with currentSquares.some(Boolean): one mark makes a draw.
isDraw_Some(w, squares) == ~Truthy(w) /\ \E i \in Cells : Truthy(squares[i])

\* const isDraw = !winner && currentSquares.every(Boolean)
isDraw(w, squares) == ~Truthy(w) /\ \A i \in Cells : Truthy(squares[i])

\* The status text of the render.
status(w, d, x) ==
    IF Truthy(w) THEN "Winner: " \o w
    ELSE IF d THEN "Draw"
    ELSE "Next player: " \o (IF x THEN "X" ELSE "O")

\* history[currentMove] is undefined when currentMove is no index of history;
\* calculateWinner(undefined) then throws a TypeError at squares[a], the render
\* fails and React unmounts the component.
RenderError ==
    [xIsNext |-> FALSE, currentSquares |-> EmptyBoard, winner |-> Null,
     winningLine |-> <<>>, isDraw |-> FALSE, status |-> "TypeError"]

\* One render of App over the state (h, m): the derived constants of the
\* function body.  useMemo returns calculateWinner(currentSquares) for the
\* array it is handed; snapshots are never written after their creation, so
\* the memo is the function's value.
Render(h, m) ==
    IF m \notin 0..(Len(h) - 1) THEN RenderError
    ELSE LET squares == currentSquares(h, m)
             result == calculateWinner(squares)
             w == winner(result)
             d == isDraw(w, squares)
         IN  [xIsNext |-> xIsNext(m), currentSquares |-> squares,
              winner |-> w, winningLine |-> winningLine(result),
              isDraw |-> d, status |-> status(w, d, xIsNext(m))]

\* The component takes input events while it is mounted.
Mounted == view.status # "TypeError"

\* No handler is running and no write is pending.
NoUpdates == [todo |-> <<>>, issued |-> <<>>]

\* The record kept in `event`: which handler ran, whether it wrote the state,
\* whether the clicked square was empty, and how many snapshots its write
\* discarded.
Event(type, accepted, empty, dropped) ==
    [type |-> type, accepted |-> accepted, empty |-> empty, dropped |-> dropped]

Init ==
    /\ history = <<EmptyBoard>>
    /\ currentMove = 0
    /\ view = Render(history, currentMove)
    /\ event = Event("init", FALSE, FALSE, 0)
    /\ queue = NoUpdates

\* handlePlay with history.slice(0, currentMove): the active snapshot is dropped
\* with the later ones.
handlePlay_SliceOffByOne(nextSquares) ==
    LET nextHistory == Append(SubSeq(history, 1, currentMove), nextSquares)
    IN  /\ history' = nextHistory
        /\ currentMove' = Len(nextHistory) - 1

\* handlePlay with [...history, nextSquares]: no snapshot is dropped.
handlePlay_NoTruncate(nextSquares) ==
    LET nextHistory == Append(history, nextSquares)
    IN  /\ history' = nextHistory
        /\ currentMove' = Len(nextHistory) - 1

\* handlePlay with setCurrentMove(currentMove): the active move never advances.
handlePlay_NoAdvance(nextSquares) ==
    LET nextHistory == Append(SubSeq(history, 1, currentMove + 1), nextSquares)
    IN  /\ history' = nextHistory
        /\ currentMove' = currentMove

\* handlePlay(nextSquares): both state writes of the handler.
handlePlay(nextSquares) ==
    LET nextHistory == Append(SubSeq(history, 1, currentMove + 1), nextSquares)
    IN  /\ history' = nextHistory
        /\ currentMove' = Len(nextHistory) - 1

\* handleSquareClick with the guard `if (currentSquares[index]) return`: play
\* goes on after a win.
handleSquareClick_NoWinnerCheck(index) ==
    LET ignored == Truthy(view.currentSquares[index])
        nextSquares ==
            [view.currentSquares EXCEPT ![index] = IF view.xIsNext THEN "X" ELSE "O"]
    IN  /\ IF ignored THEN UNCHANGED state ELSE handlePlay(nextSquares)
        /\ event' = Event("click", ~ignored, ~Truthy(view.currentSquares[index]),
                          IF ignored THEN 0 ELSE Len(history) - (currentMove + 1))
        /\ view' = Render(history', currentMove')

\* handleSquareClick with the guard `if (winner) return`: an occupied square
\* is written again.
handleSquareClick_NoOccupiedCheck(index) ==
    LET ignored == Truthy(view.winner)
        nextSquares ==
            [view.currentSquares EXCEPT ![index] = IF view.xIsNext THEN "X" ELSE "O"]
    IN  /\ IF ignored THEN UNCHANGED state ELSE handlePlay(nextSquares)
        /\ event' = Event("click", ~ignored, ~Truthy(view.currentSquares[index]),
                          IF ignored THEN 0 ELSE Len(history) - (currentMove + 1))
        /\ view' = Render(history', currentMove')

\* handleSquareClick with nextSquares = currentSquares (no slice()): the write
\* to nextSquares[index] lands in the active snapshot of history as well.
handleSquareClick_InPlace(index) ==
    LET ignored == Truthy(view.winner) \/ Truthy(view.currentSquares[index])
        nextSquares ==
            [view.currentSquares EXCEPT ![index] = IF view.xIsNext THEN "X" ELSE "O"]
        nextHistory ==
            Append([n \in 1..(currentMove + 1) |->
                        IF n = currentMove + 1 THEN nextSquares ELSE history[n]],
                   nextSquares)
    IN  /\ IF ignored THEN UNCHANGED state
           ELSE /\ history' = nextHistory
                /\ currentMove' = Len(nextHistory) - 1
        /\ event' = Event("click", ~ignored, ~Truthy(view.currentSquares[index]),
                          IF ignored THEN 0 ELSE Len(history) - (currentMove + 1))
        /\ view' = Render(history', currentMove')

\* handleSquareClick(index), and the render that follows.  winner,
\* currentSquares and xIsNext are the values of the render the handler was
\* created in.
handleSquareClick(index) ==
    LET ignored == Truthy(view.winner) \/ Truthy(view.currentSquares[index])
        nextSquares ==
            [view.currentSquares EXCEPT ![index] = IF view.xIsNext THEN "X" ELSE "O"]
    IN  /\ IF ignored THEN UNCHANGED state ELSE handlePlay(nextSquares)
        /\ event' = Event("click", ~ignored, ~Truthy(view.currentSquares[index]),
                          IF ignored THEN 0 ELSE Len(history) - (currentMove + 1))
        /\ view' = Render(history', currentMove')

\* jumpTo that also drops the snapshots after `move`.
jumpTo_Truncates(move) ==
    /\ currentMove' = move
    /\ history' = SubSeq(history, 1, move + 1)
    /\ event' = Event("jump", TRUE, FALSE, 0)
    /\ view' = Render(history', currentMove')

jumpTo(move) ==
    /\ currentMove' = move
    /\ UNCHANGED history
    /\ event' = Event("jump", TRUE, FALSE, 0)
    /\ view' = Render(history', currentMove')

\* resetGame without setCurrentMove(0).
resetGame_KeepsMove ==
    /\ history' = <<EmptyBoard>>
    /\ UNCHANGED currentMove
    /\ event' = Event("reset", TRUE, FALSE, Len(history) - 1)
    /\ view' = Render(history', currentMove')

\* resetGame without setHistory: only the active move goes back to 0.
resetGame_KeepsHistory ==
    /\ UNCHANGED history
    /\ currentMove' = 0
    /\ event' = Event("reset", TRUE, FALSE, 0)
    /\ view' = Render(history', currentMove')

resetGame ==
    /\ history' = <<EmptyBoard>>
    /\ currentMove' = 0
    /\ event' = Event("reset", TRUE, FALSE, Len(history) - 1)
    /\ view' = Render(history', currentMove')

\* Bound on the inputs: a click on an empty square of the active board lands on
\* one of its first MaxChoice empty squares (in index order); clicks on
\* occupied squares are not restricted.
MaxChoice == 2

EmptyBefore(squares, i) == Cardinality({j \in 0..(i - 1) : ~Truthy(squares[j])})

\* The click sequence of the specification's winning scenario, which the
\* bound above would cut off: X on 0, O on 4, X on 1, O on 7, X on 2.
ScenarioWin == <<0, 4, 1, 7, 2>>

\* The board after the first n clicks of a sequence of distinct squares,
\* X and O in turn.
ScenarioBoard(clicks, n) ==
    [i \in Cells |->
        IF \E k \in 1..n : clicks[k] = i
        THEN LET k == CHOOSE k \in 1..n : clicks[k] = i
             IN  IF k % 2 = 1 THEN "X" ELSE "O"
        ELSE Null]

\* The next click of the winning scenario, while the active board is on it.
ScenarioTargets ==
    {ScenarioWin[k] : k \in {n \in 1..Len(ScenarioWin) :
        n = currentMove + 1 /\ view.currentSquares = ScenarioBoard(ScenarioWin, n - 1)}}

\* The squares a click event may carry: each square of the board is a button
\* whose onClick calls onSquareClick(i).
ClickTargets ==
    {i \in Cells : \/ Truthy(view.currentSquares[i])
                   \/ EmptyBefore(view.currentSquares, i) < MaxChoice
                   \/ i \in ScenarioTargets}

\* The moves a history button may carry: one button per snapshot.
JumpTargets == 0..(Len(history) - 1)

\* The buttons of the page: a square of the Board, an entry of the History
\* list, and Restart.  Each calls its handler while the component is mounted.
onSquareClick ==
    /\ Mounted
    /\ \E index \in ClickTargets : handleSquareClick(index)
    /\ UNCHANGED queue

onJumpTo ==
    /\ Mounted
    /\ \E move \in JumpTargets : jumpTo(move)
    /\ UNCHANGED queue

onRestart == Mounted /\ resetGame /\ UNCHANGED queue

\* One input event, handled to completion before the next is taken.
Next ==
    \/ onSquareClick
    \/ onJumpTo
    \/ onRestart

Spec == Init /\ [][Next]_vars

\* Bound on the inputs of the game under fairness: as MaxChoice, for the
\* specification whose behaviours are checked to their end.
MaxLiveChoice == 1

LiveClickTargets ==
    {i \in Cells : \/ Truthy(view.currentSquares[i])
                   \/ EmptyBefore(view.currentSquares, i) < MaxLiveChoice
                   \/ i \in ScenarioTargets}

onSquareClickLive ==
    /\ Mounted
    /\ \E index \in LiveClickTargets : handleSquareClick(index)
    /\ UNCHANGED queue

\* A click that places a mark.
PlaceMark == onSquareClickLive /\ event'.accepted

NextLive ==
    \/ onSquareClickLive
    \/ onJumpTo
    \/ onRestart

\* The game with players who keep moving: while a mark can be placed, one is
\* placed at some time.
SpecLive == Init /\ [][NextLive]_vars /\ WF_vars(PlaceMark)

\* ---- The state writes of a handler, one by one ----

\* A call of a useState setter: setHistory(value) or setCurrentMove(value).
Write(hook, value) == [hook |-> hook, value |-> value]

\* handlePlay: setHistory(nextHistory), then setCurrentMove.
handlePlayWrites(nextSquares) ==
    LET nextHistory == Append(SubSeq(history, 1, currentMove + 1), nextSquares)
    IN  <<Write("history", nextHistory), Write("currentMove", Len(nextHistory) - 1)>>

\* handleSquareClick: no write when the guard returns, else those of handlePlay.
handleSquareClickWrites(index) ==
    LET ignored == Truthy(view.winner) \/ Truthy(view.currentSquares[index])
        nextSquares ==
            [view.currentSquares EXCEPT ![index] = IF view.xIsNext THEN "X" ELSE "O"]
    IN  IF ignored THEN <<>> ELSE handlePlayWrites(nextSquares)

jumpToWrites(move) == <<Write("currentMove", move)>>

\* resetGame with setHistory alone.
resetGameWrites_KeepsMove == <<Write("history", <<EmptyBoard>>)>>

\* resetGame: setHistory([Array(9).fill(null)]), then setCurrentMove(0).
resetGameWrites == <<Write("history", <<EmptyBoard>>), Write("currentMove", 0)>>

\* No handler runs: the page takes the next input event.
Idle == queue = NoUpdates

\* An input event starts its handler, which has its state writes still to do.
\* The values the handler reads are those of the render it was created in.
startSquareClick ==
    /\ Mounted /\ Idle
    /\ \E index \in LiveClickTargets :
          LET writes == handleSquareClickWrites(index)
          IN  /\ queue' = [todo |-> writes, issued |-> <<>>]
              /\ event' = Event("click", writes # <<>>, ~Truthy(view.currentSquares[index]),
                                IF writes = <<>> THEN 0 ELSE Len(history) - (currentMove + 1))
    /\ UNCHANGED <<state, view>>

startJumpTo ==
    /\ Mounted /\ Idle
    /\ \E move \in JumpTargets : queue' = [todo |-> jumpToWrites(move), issued |-> <<>>]
    /\ event' = Event("jump", TRUE, FALSE, 0)
    /\ UNCHANGED <<state, view>>

startRestart ==
    /\ Mounted /\ Idle
    /\ queue' = [todo |-> resetGameWrites, issued |-> <<>>]
    /\ event' = Event("reset", TRUE, FALSE, Len(history) - 1)
    /\ UNCHANGED <<state, view>>

\* The running handler calls its next setter: the update is queued, the state
\* the component renders from is not written.
setState ==
    /\ queue.todo # <<>>
    /\ queue' = [todo |-> Tail(queue.todo), issued |-> Append(queue.issued, Head(queue.todo))]
    /\ UNCHANGED <<state, view, event>>

\* The value of a hook after the queued updates: that of the last update of
\* the hook, or the old one.
Updated(hook, old) ==
    LET ks == {k \in 1..Len(queue.issued) : queue.issued[k].hook = hook}
    IN  IF ks = {} THEN old
        ELSE queue.issued[CHOOSE k \in ks : \A j \in ks : j <= k].value

\* The handler has returned: React applies the updates queued during the event
\* in one batch and renders once.
commit ==
    /\ queue.todo = <<>>
    /\ queue.issued # <<>>
    /\ history' = Updated("history", history)
    /\ currentMove' = Updated("currentMove", currentMove)
    /\ view' = Render(history', currentMove')
    /\ queue' = NoUpdates
    /\ UNCHANGED event

NextWrites ==
    \/ startSquareClick
    \/ startJumpTo
    \/ startRestart
    \/ setState
    \/ commit

SpecWrites == Init /\ [][NextWrites]_vars

\* ---- calculateWinner and the derived result on arbitrary boards ----

\* Every array of 9 squares over null, 'X', 'O', reachable by play or not.
Boards == [Cells -> {Null, "X", "O"}]

\* A board handed to the component as its only snapshot, not yet rendered.
InitEval ==
    /\ history \in {<<b>> : b \in Boards}
    /\ currentMove = 0
    /\ view = Render(<<EmptyBoard>>, 0)
    /\ event = Event("inject", FALSE, FALSE, 0)
    /\ queue = NoUpdates

\* The render of the injected board: calculateWinner and the values derived
\* from its result.
RenderInjected ==
    /\ event.type = "inject"
    /\ event' = Event("render", FALSE, FALSE, 0)
    /\ view' = Render(history, currentMove)
    /\ UNCHANGED <<state, queue>>

NextEval == RenderInjected

SpecEval == InitEval /\ [][NextEval]_vars

\* ---- Properties ----

\* The indices of the snapshots of history, and the n-th snapshot (0-based).
Snapshots == 0..(Len(history) - 1)
Snapshot(n) == history[n + 1]

\* The 8 triples in the order of the specification: rows top to bottom,
\* columns left to right, then the two diagonals.
Triples == << <<0, 1, 2>>, <<3, 4, 5>>, <<6, 7, 8>>,
              <<0, 3, 6>>, <<1, 4, 7>>, <<2, 5, 8>>,
              <<0, 4, 8>>, <<2, 4, 6>> >>

Marks == {"X", "O"}

\* Triple t is filled with three equal marks on board b.
Complete(b, t) == b[t[1]] \in Marks /\ b[t[2]] = b[t[1]] /\ b[t[3]] = b[t[1]]

CompleteTriples(b) == {k \in 1..Len(Triples) : Complete(b, Triples[k])}

\* The derived status shown for the active board.
Won == view.status \in {"Winner: X", "Winner: O"}
Drawn == view.status = "Draw"
InProgress == view.status \in {"Next player: X", "Next player: O"}

\* The last event was a click that placed a mark / that was ignored.
Placed == event.type = "click" /\ event.accepted
Ignored == event.type = "click" /\ ~event.accepted

\* C1: an accepted PlaceMark in a state with CurrentMove = m leaves a History
\* of exactly m+2 snapshots and CurrentMove = m+1, whatever the length of
\* History was: the snapshots after m are discarded.
C1_HistoryTruncation ==
    [][Placed' => Len(history') = currentMove + 2 /\ currentMove' = currentMove + 1]_vars

\* C1 witness: a mark was placed at move 2 of a History of 6 snapshots (moves
\* 0..5); the History now has 4 snapshots, the former moves 3, 4, 5 are gone.
C1_Witness == Placed /\ event.dropped = 3 /\ Len(history) = 4 /\ currentMove = 3

\* C2 as stated: once the status is Won or Drawn, only a Reset brings it back
\* to InProgress.
C2_TerminalUntilReset ==
    [][((Won \/ Drawn) /\ ~(Won \/ Drawn)') => event'.type = "reset"]_vars

\* C2 amended: once the status is Won or Drawn it stays so under every
\* PlaceMark; only a Reset or a JumpTo to an earlier snapshot brings it back to
\* InProgress.
C2_TerminalUntilResetOrJumpBack ==
    [][((Won \/ Drawn) /\ ~(Won \/ Drawn)') =>
          \/ event'.type = "reset"
          \/ event'.type = "jump" /\ currentMove' < currentMove]_vars

\* C2 witness: a JumpTo from a won game back to an earlier snapshot, whose
\* status is InProgress again without any Reset.
C2_Witness ==
    /\ event.type = "jump"
    /\ InProgress
    /\ CompleteTriples(Snapshot(Len(history) - 1)) # {}

\* C3 as stated: no snapshot reached by play has more than one complete triple.
C3_AtMostOneLine ==
    \A n \in Snapshots : Cardinality(CompleteTriples(Snapshot(n))) <= 1

\* C3 amended: no snapshot reached by play has complete triples of both marks
\* or more than two complete triples; two triples are complete at once only on
\* the full board of move 9, both of X and sharing one cell.
C3_AtMostOneWinner ==
    \A n \in Snapshots :
        LET b == Snapshot(n)
            done == CompleteTriples(b)
        IN  /\ \A j, k \in done : b[Triples[j][1]] = b[Triples[k][1]]
            /\ Cardinality(done) <= 2
            /\ Cardinality(done) = 2 =>
                  /\ n = 9
                  /\ \A k \in done : b[Triples[k][1]] = "X"
                  /\ \A j, k \in done :
                        j # k => Cardinality({Triples[j][i] : i \in 1..3}
                                             \cap {Triples[k][i] : i \in 1..3}) = 1

\* C3 witness: the ninth move completed two triples at once.
C3_Witness ==
    Placed /\ currentMove = 9 /\ Cardinality(CompleteTriples(Snapshot(9))) = 2

\* C4: PlaceMark on a square that is occupied on the active board changes
\* neither History nor CurrentMove.
C4_OccupiedIsNoOp ==
    [][\A index \in Cells :
          (Truthy(Snapshot(currentMove)[index]) /\ handleSquareClick(index))
              => UNCHANGED state]_vars

\* C4 witness: a click on an occupied square of a board in progress was ignored.
C4_Witness == Ignored /\ ~event.empty /\ InProgress /\ Len(history) > 1

\* C5: while the active board is won or drawn, PlaceMark on any square,
\* occupied or empty, changes neither History nor CurrentMove.
C5_AfterEndIsNoOp ==
    [][\A index \in Cells :
          ((CompleteTriples(Snapshot(currentMove)) # {}
                \/ \A i \in Cells : Snapshot(currentMove)[i] \in Marks)
             /\ handleSquareClick(index))
              => UNCHANGED state]_vars

\* C5 witness: a click on an empty square of a won board was ignored.
C5_Witness == Ignored /\ event.empty /\ Won

\* The squares in which snapshot n differs from snapshot n-1.
Changed(n) == {i \in Cells : Snapshot(n)[i] # Snapshot(n - 1)[i]}

\* C6: for every k with 1 <= k < length(History), snapshot k adds exactly one
\* mark to snapshot k-1, X when k is odd and O when k is even.
C6_TurnAlternation ==
    \A k \in Snapshots \ {0} :
        /\ Cardinality(Changed(k)) = 1
        /\ \A i \in Changed(k) :
              /\ Snapshot(k - 1)[i] = Null
              /\ Snapshot(k)[i] = IF k % 2 = 1 THEN "X" ELSE "O"

\* C6 witness: after a JumpTo back, move 4 was played anew (by O).
C6_Witness == Placed /\ event.dropped >= 1 /\ currentMove = 4

\* C7: snapshot 0 is the all-empty board, and every snapshot n >= 1 differs
\* from snapshot n-1 in at most one cell, which went from Empty to a mark.
C7_HistoryShape ==
    /\ Snapshot(0) = [i \in Cells |-> Null]
    /\ \A n \in Snapshots \ {0} :
          /\ Cardinality(Changed(n)) <= 1
          /\ \A i \in Changed(n) :
                Snapshot(n - 1)[i] = Null /\ Snapshot(n)[i] \in Marks

\* C7 witness: a mark placed after a JumpTo back, on a History rewritten from
\* there on (two or more snapshots were discarded).
C7_Witness == Placed /\ event.dropped >= 2 /\ Len(history) >= 5

\* C8: 0 <= CurrentMove < length(History).
C8_CurrentMoveInRange == 0 <= currentMove /\ currentMove < Len(history)

\* C8 witness: a JumpTo to the last index of a full History of 10 snapshots.
C8_Witness == event.type = "jump" /\ currentMove = 9 /\ Len(history) = 10

\* The board handed to the render under SpecEval, and whether it was rendered.
Injected == Snapshot(0)
Rendered == event.type = "render"

\* The first complete triple of board b in the order of Triples.
FirstComplete(b) ==
    CHOOSE k \in CompleteTriples(b) : \A j \in CompleteTriples(b) : k <= j

\* C9: for every board over {Empty, X, O} with at least one complete triple,
\* the result is Win with the mark and the indices of the first complete
\* triple in the fixed order.
C9_WinDetection ==
    (Rendered /\ CompleteTriples(Injected) # {}) =>
        LET t == Triples[FirstComplete(Injected)]
        IN  /\ Won
            /\ view.winner = Injected[t[1]]
            /\ view.winningLine = t

\* C9 witness: a rendered board with complete triples of both marks, where
\* the order decides.
C9_Witness ==
    /\ Rendered
    /\ \E j, k \in CompleteTriples(Injected) :
          Injected[Triples[j][1]] # Injected[Triples[k][1]]

Full(b) == \A i \in Cells : b[i] \in Marks

\* C10: for every board over {Empty, X, O} without a complete triple the
\* result is Draw exactly when all 9 cells are non-empty and None exactly when
\* some cell is Empty; a full board with a complete triple is Win, not Draw.
C10_NoneDrawPartition ==
    Rendered =>
        IF CompleteTriples(Injected) = {}
        THEN /\ Drawn <=> Full(Injected)
             /\ view.isDraw <=> Full(Injected)
             /\ InProgress <=> ~Full(Injected)
        ELSE Won /\ ~Drawn /\ ~view.isDraw

\* C10 witness: a rendered full board without a complete triple, shown as Draw.
C10_Witness ==
    Rendered /\ Full(Injected) /\ CompleteTriples(Injected) = {} /\ Drawn

\* The mark placed by the move that leads to snapshot n.
Mover(n) == IF n % 2 = 1 THEN "X" ELSE "O"

\* C11: when an accepted PlaceMark leaves a complete triple on the active
\* board, the status is Won, the reported player is the one who just moved
\* (X iff the new CurrentMove is odd) and the reported line contains the cell
\* just played.
C11_LineWinsForMover ==
    (Placed /\ CompleteTriples(Snapshot(currentMove)) # {}) =>
        /\ Won
        /\ view.winner = Mover(currentMove)
        /\ Complete(Snapshot(currentMove), view.winningLine)
        /\ \A i \in Changed(currentMove) :
              /\ Snapshot(currentMove)[i] = view.winner
              /\ \E j \in 1..3 : view.winningLine[j] = i

\* C11 witness: the scenario of the specification, PlaceMark on 0, 4, 1, 7, 2
\* from the start, ended with Win(X, [0,1,2]) at CurrentMove = 5.
C11_Witness ==
    /\ Placed
    /\ currentMove = 5
    /\ \A n \in 0..5 : Snapshot(n) = ScenarioBoard(ScenarioWin, n)
    /\ view.winner = "X"
    /\ view.winningLine = <<0, 1, 2>>
    /\ view.status = "Winner: X"

\* The click sequence of the specification's draw scenario.
ScenarioDraw == <<0, 1, 2, 4, 3, 5, 7, 6, 8>>

\* C12: every accepted PlaceMark starts from status InProgress, and it makes
\* the status Drawn exactly when it is the 9th move and leaves no complete
\* triple; the status is Drawn on no board but a ninth snapshot.
C12_FullBoardDraws ==
    [][/\ Placed' =>
            /\ InProgress
            /\ Drawn' <=> /\ currentMove' = 9
                          /\ CompleteTriples(history'[currentMove' + 1]) = {}
       /\ Drawn' => currentMove' = 9 /\ Len(history') = 10]_vars

\* C12 witness: the draw scenario of the specification, PlaceMark on
\* 0, 1, 2, 4, 3, 5, 7, 6, 8 from the start, all accepted, ended in Draw with a
\* History of 10 snapshots.
C12_Witness ==
    /\ Placed
    /\ Len(history) = 10
    /\ \A n \in 0..9 : Snapshot(n) = ScenarioBoard(ScenarioDraw, n)
    /\ Drawn

\* C13: JumpTo(move) with move an index of History sets CurrentMove = move and
\* leaves History as it is, whatever the status.
C13_JumpToFrame ==
    [][\A move \in Snapshots :
          jumpTo(move) => currentMove' = move /\ history' = history]_vars

\* C13 witness: a JumpTo on a won game, to the won snapshot itself; all the
\* snapshots are still there and the status is still Won.
C13_Witness ==
    /\ event.type = "jump"
    /\ Won
    /\ currentMove = Len(history) - 1
    /\ currentMove >= 5

\* C14: Reset leaves History a single all-empty board of 9 cells and
\* CurrentMove = 0, so that X moves next, from whatever state.
C14_ResetIsInitial ==
    [][event'.type = "reset" =>
          /\ history' = <<[i \in Cells |-> Null]>>
          /\ currentMove' = 0
          /\ view'.status = "Next player: X"
          /\ view'.xIsNext]_vars

\* C14 witness: the state after a Reset that discarded the 9 moves of a full
\* History.
C14_Witness ==
    /\ event.type = "reset"
    /\ event.dropped = 9
    /\ Len(history) = 1
    /\ currentMove = 0

\* The active board, History[CurrentMove].
Active == Snapshot(currentMove)

\* What is shown was derived from the active board and CurrentMove alone.
ViewOfActive ==
    /\ view.currentSquares = Active
    /\ view.xIsNext <=> currentMove % 2 = 0
    /\ Won <=> CompleteTriples(Active) # {}
    /\ Drawn <=> (CompleteTriples(Active) = {} /\ Full(Active))
    /\ InProgress <=> (CompleteTriples(Active) = {} /\ ~Full(Active))

\* C15: in every state the result and the turn are those of the active board
\* History[CurrentMove], whatever the later snapshots are, and PlaceMark(index)
\* is accepted exactly when the active board has no complete triple and its
\* cell index is Empty.
C15_NoStaleResult ==
    /\ []ViewOfActive
    /\ [][event'.type = "click" =>
             \A index \in Cells :
                 handleSquareClick(index) =>
                     (currentMove' = currentMove + 1
                        <=> (CompleteTriples(Active) = {} /\ Active[index] = Null))]_vars

\* C15 witness: a JumpTo from a drawn game back to move 4, where the status is
\* InProgress although the last snapshot is a draw.
C15_Witness ==
    /\ event.type = "jump"
    /\ currentMove = 4
    /\ InProgress
    /\ Len(history) = 10
    /\ Full(Snapshot(9)) /\ CompleteTriples(Snapshot(9)) = {}

\* C16: an accepted PlaceMark in a state with CurrentMove = m leaves the
\* snapshots 0..m as they were, cell for cell, and appends a snapshot m+1 that
\* equals snapshot m except at one index, the one played.
C16_SnapshotsImmutable ==
    [][Placed' =>
          /\ Len(history') >= currentMove + 2
          /\ \A n \in 0..currentMove : \A i \in Cells :
                history'[n + 1][i] = history[n + 1][i]
          /\ Cardinality({i \in Cells :
                history'[currentMove + 2][i] # history[currentMove + 1][i]}) = 1]_vars

\* C16 witness: the ninth mark was placed on a History that kept its 9
\* snapshots.
C16_Witness == Placed /\ currentMove = 9 /\ event.dropped = 0 /\ Len(history) = 10

\* C18: every snapshot but the last has no complete triple and at least one
\* Empty cell; a won or drawn board is the last snapshot of History.
C18_OnlyLastTerminal ==
    \A i \in Snapshots :
        i < Len(history) - 1 =>
            /\ CompleteTriples(Snapshot(i)) = {}
            /\ \E c \in Cells : Snapshot(i)[c] = Null

\* C18 witness: O won with the eighth move, played after a JumpTo back; the
\* won board is the last of 9 snapshots.
C18_Witness ==
    /\ Placed
    /\ event.dropped >= 1
    /\ currentMove = 8
    /\ Len(history) = 9
    /\ view.winner = "O"

\* The number of cells of board b that hold mark v.
Count(b, v) == Cardinality({i \in DOMAIN b : b[i] = v})

\* C19: snapshot n is a board of exactly 9 cells that holds exactly n marks,
\* ceil(n/2) of them X and floor(n/2) of them O; so History has at most 10
\* snapshots and CurrentMove is at most 9.
C19_MarkCount ==
    /\ \A n \in Snapshots :
          /\ DOMAIN Snapshot(n) = 0..8
          /\ \A i \in 0..8 : Snapshot(n)[i] \in {Null, "X", "O"}
          /\ Count(Snapshot(n), "X") = (n + 1) \div 2
          /\ Count(Snapshot(n), "O") = n \div 2
          /\ Count(Snapshot(n), Null) = 9 - n
    /\ Len(history) <= 10
    /\ currentMove <= 9

\* C19 witness: X won with the ninth move: 5 X and 4 O on the tenth snapshot.
C19_Witness == Placed /\ Len(history) = 10 /\ view.winner = "X"

C17_AtomicEvents ==
    /\ [](Mounted /\ 0 <= currentMove /\ currentMove < Len(history))
    /\ [][state' # state => queue.todo = <<>> /\ queue' = NoUpdates]_vars
    /\ [][history' # history =>
             /\ currentMove' = Len(history') - 1
             /\ Len(queue.issued) = 2
             /\ queue.issued[1].hook = "history"
             /\ queue.issued[2].hook = "currentMove"]_vars
    /\ [][event' # event => queue = NoUpdates]_vars

\* C17 witness: Reset at CurrentMove = 5 has issued its History write and not
\* yet its CurrentMove write; the state rendered from is still the old one.
C17_Witness ==
    /\ event.type = "reset"
    /\ currentMove = 5
    /\ Len(history) >= 6
    /\ Len(queue.issued) = 1 /\ queue.issued[1].hook = "history"
    /\ Len(queue.issued[1].value) = 1
    /\ Len(queue.todo) = 1 /\ queue.todo[1].hook = "currentMove"
====
